---------------------------- MODULE Spec2Model ----------------------------
(***************************************************************************)
(* Shelf Scope DSL of kotn-core-utils.js: mergeScopeRules,                 *)
(* compileShelfScope, matchShelfNameScope, filterShelfNamesByScope and the *)
(* shared helper parseShelfName.                                           *)
(*                                                                         *)
(* A JavaScript string is a sequence of one-character strings.  A number   *)
(* is an integer >= 0, NaN and null are the two values below zero named    *)
(* NaN and Null.  An error message 'kind' + tokenRaw is the record         *)
(* [msg |-> kind, token |-> tokenRaw].                                     *)
(***************************************************************************)
EXTENDS Integers, Sequences, FiniteSets, TLC

(***************************************************************************)
(* Bounds of the checked inputs.                                           *)
(***************************************************************************)
MaxNum == 3
MaxRules == 2
MaxTokens == 2
MaxNames == 2

(***************************************************************************)
(* JavaScript values.                                                      *)
(***************************************************************************)
NaN == -1
Null == -2

IsFinite(x) == x >= 0

Min(a, b) == IF a <= b THEN a ELSE b
Max(a, b) == IF a >= b THEN a ELSE b

(***************************************************************************)
(* Characters.                                                             *)
(***************************************************************************)
UpperLetters ==
    << "A", "B", "C", "D", "E", "F", "G", "H", "I", "J", "K", "L", "M",
       "N", "O", "P", "Q", "R", "S", "T", "U", "V", "W", "X", "Y", "Z" >>
LowerLetters ==
    << "a", "b", "c", "d", "e", "f", "g", "h", "i", "j", "k", "l", "m",
       "n", "o", "p", "q", "r", "s", "t", "u", "v", "w", "x", "y", "z" >>
DigitChars == << "0", "1", "2", "3", "4", "5", "6", "7", "8", "9" >>

Range(f) == { f[i] : i \in DOMAIN f }
IndexOf(f, c) == CHOOSE i \in DOMAIN f : f[i] = c

\* [A-Za-z]
Letters == Range(UpperLetters) \cup Range(LowerLetters)
\* \d
Digits == Range(DigitChars)
DigitVal(c) == IndexOf(DigitChars, c) - 1
\* \s (the white space of the modelled inputs)
IsSpace(c) == c \in { " ", "\t", "\n" }
BS == "\\"

ToUpperChar(c) ==
    IF c \in Range(LowerLetters) THEN UpperLetters[IndexOf(LowerLetters, c)] ELSE c
ToUpperCase(s) == [ i \in 1..Len(s) |-> ToUpperChar(s[i]) ]

(***************************************************************************)
(* String helpers: String.prototype.trim, dom.norm, split(',').            *)
(***************************************************************************)
RECURSIVE TrimLeft(_)
TrimLeft(s) ==
    IF s = << >> THEN s
    ELSE IF IsSpace(Head(s)) THEN TrimLeft(Tail(s)) ELSE s

RECURSIVE TrimRight(_)
TrimRight(s) ==
    IF s = << >> THEN s
    ELSE IF IsSpace(s[Len(s)]) THEN TrimRight(SubSeq(s, 1, Len(s) - 1)) ELSE s

Trim(s) == TrimRight(TrimLeft(s))

\* replace(/\s+/g, ' ')
RECURSIVE CollapseSpace(_)
CollapseSpace(s) ==
    IF s = << >> THEN s
    ELSE IF IsSpace(Head(s)) THEN << " " >> \o CollapseSpace(TrimLeft(s))
    ELSE << Head(s) >> \o CollapseSpace(Tail(s))

\* dom.norm(text): (text || '').trim().replace(/\s+/g, ' ')
Norm(s) == CollapseSpace(Trim(s))

\* Length of the longest prefix of s made of characters of the set chars.
RunLen(s, chars) ==
    IF \A i \in 1..Len(s) : s[i] \in chars THEN Len(s)
    ELSE (CHOOSE i \in 1..Len(s) : s[i] \notin chars /\ \A j \in 1..(i - 1) : s[j] \in chars) - 1

Drop(s, n) == SubSeq(s, n + 1, Len(s))
Take(s, n) == SubSeq(s, 1, n)

\* raw.split(',')
RECURSIVE SplitComma(_)
SplitComma(s) ==
    LET n == RunLen(s, Range(s) \ { "," })
    IN  IF n = Len(s) THEN << s >>
        ELSE << Take(s, n) >> \o SplitComma(Drop(s, n + 1))

NonEmpty(s) == s # << >>

\* parseInt(s, 10) of a string that starts with neither white space nor a sign:
\* the value of its leading digits, NaN when it has none.
RECURSIVE DigitsValue(_)
DigitsValue(s) ==
    IF s = << >> THEN 0
    ELSE 10 * DigitsValue(SubSeq(s, 1, Len(s) - 1)) + DigitVal(s[Len(s)])

ParseInt(s) ==
    LET n == RunLen(s, Digits)
    IN  IF n = 0 THEN NaN ELSE DigitsValue(Take(s, n))

(***************************************************************************)
(* normalizeScopePrefix and mergeScopeRules.                               *)
(***************************************************************************)
normalizeScopePrefix(prefix) == ToUpperCase(Norm(prefix))

\* The body of list.forEach for the rule r with normalized prefix p: the rule
\* pushed into its byPrefix bucket, nothing for a skipped rule.
NormalizedRule(r, p) ==
    IF p = << >> \/ ~IsFinite(r.lo) \/ ~IsFinite(r.hi) THEN << >>
    ELSE << [prefix |-> p, lo |-> Min(r.lo, r.hi), hi |-> Max(r.lo, r.hi)] >>

\* The rules mergeScopeRules keeps, normalised, in input order.
RECURSIVE NormalizedRules(_)
NormalizedRules(list) ==
    IF list = << >> THEN << >>
    ELSE NormalizedRule(Head(list), normalizeScopePrefix(Head(list).prefix))
         \o NormalizedRules(Tail(list))

\* The keys of the byPrefix Map in insertion order.
RECURSIVE PrefixOrder(_, _)
PrefixOrder(list, seen) ==
    IF list = << >> THEN << >>
    ELSE IF Head(list).prefix \in seen THEN PrefixOrder(Tail(list), seen)
    ELSE << Head(list).prefix >>
         \o PrefixOrder(Tail(list), seen \cup { Head(list).prefix })

\* A comparator that leaves the ranges in the order of the input.
RangeBeforeAlways(a, b) == TRUE

\* The comparator of ranges.sort: a.lo - b.lo || a.hi - b.hi
RangeBefore(a, b) == a.lo < b.lo \/ (a.lo = b.lo /\ a.hi <= b.hi)

RECURSIVE InsertRange(_, _)
InsertRange(sorted, r) ==
    IF sorted = << >> THEN << r >>
    ELSE IF RangeBefore(Head(sorted), r)
         THEN << Head(sorted) >> \o InsertRange(Tail(sorted), r)
         ELSE << r >> \o sorted

RECURSIVE SortRanges(_)
SortRanges(ranges) ==
    IF ranges = << >> THEN << >>
    ELSE InsertRange(SortRanges(SubSeq(ranges, 1, Len(ranges) - 1)), ranges[Len(ranges)])

\* CoalesceStep joining only the ranges that overlap: r.lo <= cur.hi.
CoalesceStepOverlapOnly(acc, r) ==
    IF acc.cur = << >> THEN [out |-> acc.out, cur |-> << r >>]
    ELSE IF r.lo <= acc.cur[1].hi
    THEN [out |-> acc.out,
          cur |-> << [acc.cur[1] EXCEPT !.hi = Max(acc.cur[1].hi, r.hi)] >>]
    ELSE [out |-> Append(acc.out, acc.cur[1]), cur |-> << r >>]

\* CoalesceStep taking the end of the joined range: cur.hi = r.hi.
CoalesceStepLastEnd(acc, r) ==
    IF acc.cur = << >> THEN [out |-> acc.out, cur |-> << r >>]
    ELSE IF r.lo <= acc.cur[1].hi + 1
    THEN [out |-> acc.out, cur |-> << [acc.cur[1] EXCEPT !.hi = r.hi] >>]
    ELSE [out |-> Append(acc.out, acc.cur[1]), cur |-> << r >>]

\* One step of the ranges.forEach of mergeScopeRules; acc = [out, cur], cur is a
\* sequence of at most one rule (empty for null).
CoalesceStep(acc, r) ==
    IF acc.cur = << >> THEN [out |-> acc.out, cur |-> << r >>]
    ELSE IF r.lo <= acc.cur[1].hi + 1
    THEN [out |-> acc.out,
          cur |-> << [acc.cur[1] EXCEPT !.hi = Max(acc.cur[1].hi, r.hi)] >>]
    ELSE [out |-> Append(acc.out, acc.cur[1]), cur |-> << r >>]

RECURSIVE CoalesceFrom(_, _)
CoalesceFrom(acc, ranges) ==
    IF ranges = << >> THEN acc
    ELSE CoalesceFrom(CoalesceStep(acc, Head(ranges)), Tail(ranges))

\* Flush without the push of the last range.
FlushDropsLast(acc) == acc.out

\* if (cur) out.push(cur)
Flush(acc) == acc.out \o acc.cur

Coalesce(ranges) == Flush(CoalesceFrom([out |-> << >>, cur |-> << >>], ranges))

\* The ranges of the bucket of prefix p.
Bucket(normalized, p) ==
    SelectSeq(normalized, LAMBDA r : r.prefix = p)

RECURSIVE MergeBuckets(_, _)
MergeBuckets(prefixes, normalized) ==
    IF prefixes = << >> THEN << >>
    ELSE Coalesce(SortRanges(Bucket(normalized, Head(prefixes))))
         \o MergeBuckets(Tail(prefixes), normalized)

MergeNormalized(normalized) == MergeBuckets(PrefixOrder(normalized, {}), normalized)

mergeScopeRules(rules) == MergeNormalized(NormalizedRules(rules))

(***************************************************************************)
(* The regular expressions of compileShelfScope, as the source writes      *)
(* them.  In a regular-expression literal \\ is one backslash character,   *)
(* so /\\s+/ is a backslash followed by one or more letters s, /\\d+/ a    *)
(* backslash followed by one or more letters d, /\\:/ a backslash and a    *)
(* colon, /\\-/ a backslash and a hyphen.                                  *)
(***************************************************************************)
\* Length of the match of /\\x+/ at the start of s, for the letter x; 0 when
\* there is none.
BackslashRun(s, x) ==
    IF Len(s) >= 2 /\ s[1] = BS /\ s[2] = x THEN 1 + RunLen(Tail(s), { x }) ELSE 0

\* String(tokenRaw || '').replace(/\\s+/g, '')
RECURSIVE StripBackslashS(_)
StripBackslashS(s) ==
    IF s = << >> THEN s
    ELSE IF BackslashRun(s, "s") > 0 THEN StripBackslashS(Drop(s, BackslashRun(s, "s")))
    ELSE << Head(s) >> \o StripBackslashS(Tail(s))

NoMatch == [ok |-> FALSE, g1 |-> << >>, g2 |-> << >>, g3 |-> << >>]

\* s matches /^\\d+$/.
IsBackslashD(s) == Len(s) >= 2 /\ BackslashRun(s, "d") = Len(s)

\* s is g1 \- g2 with the \ of \- at position k, g1 and g2 matches of /\\d+/.
IsRangeSplit(s, k) ==
    /\ s[k] = BS /\ s[k + 1] = "-"
    /\ IsBackslashD(Take(s, k - 1))
    /\ IsBackslashD(Drop(s, k + 1))

\* s.match(/^(\\d+)(?:\\-(\\d+))?$/): [ok, g1, g2], g2 empty for undefined.
MatchRange(s) ==
    IF IsBackslashD(s) THEN [NoMatch EXCEPT !.ok = TRUE, !.g1 = s]
    ELSE IF \E k \in 3..(Len(s) - 3) : IsRangeSplit(s, k)
    THEN [NoMatch EXCEPT !.ok = TRUE,
              !.g1 = Take(s, (CHOOSE k \in 3..(Len(s) - 3) : IsRangeSplit(s, k)) - 1),
              !.g2 = Drop(s, (CHOOSE k \in 3..(Len(s) - 3) : IsRangeSplit(s, k)) + 1)]
    ELSE NoMatch

\* token.match(/^([A-Za-z]+)\\:(.+)$/) with k leading letters: [ok, g1, g2].
\* dom.norm has left no line terminator in the text, so . accepts every
\* character.
MatchColonAt(token, k) ==
    IF k >= 1 /\ Len(token) >= k + 3 /\ token[k + 1] = BS /\ token[k + 2] = ":"
    THEN [NoMatch EXCEPT !.ok = TRUE, !.g1 = Take(token, k), !.g2 = Drop(token, k + 2)]
    ELSE NoMatch

MatchColon(token) == MatchColonAt(token, RunLen(token, Letters))

\* token.match(/^([A-Za-z]+)(\\d+)(?:\\-(\\d+))?$/) with k leading letters and m
\* the match of the rest: [ok, g1, g2, g3].
MatchPrefixedAt(token, k, m) ==
    IF k >= 1 /\ m.ok
    THEN [ok |-> TRUE, g1 |-> Take(token, k), g2 |-> m.g1, g3 |-> m.g2]
    ELSE NoMatch

MatchPrefixedFrom(token, k) == MatchPrefixedAt(token, k, MatchRange(Drop(token, k)))

MatchPrefixed(token) == MatchPrefixedFrom(token, RunLen(token, Letters))

(***************************************************************************)
(* compileShelfScope.  The state of the parts.forEach is                   *)
(* [rules, errors, lastPrefix]; lastPrefix is empty for null.              *)
(***************************************************************************)
\* The body of addRule for the normalized prefix p.
addRuleNormalized(rules, p, a, b) ==
    IF p = << >> \/ ~IsFinite(a) \/ ~IsFinite(b) THEN rules
    ELSE Append(rules, [prefix |-> p, lo |-> Min(a, b), hi |-> Max(a, b)])

\* addRule(prefix, a, b): the rules list after the call.
addRule(rules, prefix, a, b) == addRuleNormalized(rules, normalizeScopePrefix(prefix), a, b)

\* pfxs.forEach(p => addRule(p, a, b))
RECURSIVE addRuleEach(_, _, _, _)
addRuleEach(rules, pfxs, a, b) ==
    IF pfxs = << >> THEN rules
    ELSE addRuleEach(addRule(rules, Head(pfxs), a, b), Tail(pfxs), a, b)

Error(msg, tokenRaw) == [msg |-> msg, token |-> tokenRaw]

\* parseInt(m[1], 10)
FirstBound(m) == ParseInt(m.g1)
\* parseInt(m[2] ? m[2] : m[1], 10)
SecondBound(m) == ParseInt(IF m.g2 # << >> THEN m.g2 ELSE m.g1)

\* if (prefix) { ... } with lastPrefix already normalized and m the match of
\* rangeText.
RangeToken(st, tokenRaw, lastPrefix, m) ==
    IF ~m.ok
    THEN [st EXCEPT !.lastPrefix = lastPrefix,
                    !.errors = Append(@, Error("Invalid range: ", tokenRaw))]
    ELSE [st EXCEPT !.lastPrefix = lastPrefix,
                    !.rules = addRule(@, lastPrefix, FirstBound(m), SecondBound(m))]

PrefixedToken(st, tokenRaw, prefix, rangeText) ==
    RangeToken(st, tokenRaw, normalizeScopePrefix(prefix), MatchRange(rangeText))

\* The part of the callback for a token without prefix: digitsOnly is the
\* match of the token, pfxs = lastPrefix ? [lastPrefix] : implicit.
BareRange(st, tokenRaw, digitsOnly, pfxs) ==
    IF digitsOnly.ok
    THEN IF pfxs = << >>
         THEN [st EXCEPT !.errors = Append(@, Error("Missing prefix for: ", tokenRaw))]
         ELSE [st EXCEPT !.rules = addRuleEach(@, pfxs, FirstBound(digitsOnly),
                                               SecondBound(digitsOnly))]
    ELSE [st EXCEPT !.errors = Append(@, Error("Unrecognized token: ", tokenRaw))]

BareToken(st, tokenRaw, token, implicit) ==
    BareRange(st, tokenRaw, MatchRange(token),
              IF st.lastPrefix # << >> THEN << st.lastPrefix >> ELSE implicit)

\* prefixed[2] + (prefixed[3] ? '-' + prefixed[3] : '')
RangeTextOf(prefixed) ==
    prefixed.g2 \o (IF prefixed.g3 # << >> THEN << "-" >> \o prefixed.g3 ELSE << >>)

\* The callback after the two matches of the token: prefix and rangeText come
\* from colon, else from prefixed, else stay null.
ClassifyToken(st, tokenRaw, token, implicit, colon, prefixed) ==
    IF colon.ok \/ prefixed.ok
    THEN PrefixedToken(st, tokenRaw,
                       IF colon.ok THEN colon.g1 ELSE prefixed.g1,
                       IF colon.ok THEN colon.g2 ELSE RangeTextOf(prefixed))
    ELSE BareToken(st, tokenRaw, token, implicit)

CompileStripped(st, tokenRaw, token, implicit) ==
    IF token = << >> THEN st
    ELSE ClassifyToken(st, tokenRaw, token, implicit, MatchColon(token), MatchPrefixed(token))

\* The callback of parts.forEach.
CompileToken(st, tokenRaw, implicit) ==
    CompileStripped(st, tokenRaw, StripBackslashS(tokenRaw), implicit)

RECURSIVE CompileParts(_, _, _)
CompileParts(st, parts, implicit) ==
    IF parts = << >> THEN st
    ELSE CompileParts(CompileToken(st, Head(parts), implicit), Tail(parts), implicit)

TrimEach(pieces) == [ i \in 1..Len(pieces) |-> Trim(pieces[i]) ]

\* raw.split(',').map(p => String(p || '').trim()).filter(Boolean)
Parts(raw) == SelectSeq(TrimEach(SplitComma(raw)), NonEmpty)

\* options.implicitPrefixes.map(normalizeScopePrefix).filter(Boolean); an options
\* object without the list is the empty sequence.
ImplicitOf(implicitPrefixes) ==
    SelectSeq([ i \in 1..Len(implicitPrefixes) |->
                  normalizeScopePrefix(implicitPrefixes[i]) ], NonEmpty)

\* CompileResult handing back the accumulators of the loop instead of the
\* result object.
CompileResultAccumulators(raw, implicit, st) == st

\* The returned object, st the state after parts.forEach.
CompileResult(raw, implicit, st) ==
    [raw |-> raw, rules |-> mergeScopeRules(st.rules), errors |-> st.errors,
     implicitPrefixes |-> implicit]

\* CompileRaw reporting an empty text as a problem.
CompileRawEmptyIsError(raw, implicit) ==
    IF raw = << >>
    THEN [raw |-> << >>, rules |-> << >>,
          errors |-> << Error("Unrecognized token: ", << >>) >>, implicitPrefixes |-> implicit]
    ELSE CompileResult(raw, implicit,
             CompileParts([rules |-> << >>, errors |-> << >>, lastPrefix |-> << >>],
                          Parts(raw), implicit))

CompileRaw(raw, implicit) ==
    IF raw = << >>
    THEN [raw |-> << >>, rules |-> << >>, errors |-> << >>, implicitPrefixes |-> implicit]
    ELSE CompileResult(raw, implicit,
             CompileParts([rules |-> << >>, errors |-> << >>, lastPrefix |-> << >>],
                          Parts(raw), implicit))

compileShelfScope(text, implicitPrefixes) == CompileRaw(Norm(text), ImplicitOf(implicitPrefixes))

(***************************************************************************)
(* parseShelfName, matchShelfNameScope, filterShelfNamesByScope.           *)
(***************************************************************************)
NoShelfName(full) ==
    [full |-> full, prefix |-> << >>, number |-> Null, digits |-> << >>, suffix |-> << >>]

\* The result for a match with the groups prefix, digits, suffix.
ShelfNameOf(full, prefix, digits, suffix, n) ==
    [full |-> full, prefix |-> prefix, number |-> IF IsFinite(n) THEN n ELSE Null,
     digits |-> digits, suffix |-> suffix]

\* ParseShelfRuns without the anchor at the end: anything may follow the digits.
ParseShelfRunsOpenEnd(full, k, d) ==
    IF k >= 1 /\ d >= 1
    THEN ShelfNameOf(full, Take(full, k), SubSeq(full, k + 1, k + d), Drop(full, k + d),
                     ParseInt(SubSeq(full, k + 1, k + d)))
    ELSE NoShelfName(full)

\* full.match(/^([A-Za-z]+)(\d+)([A-Za-z]+)?$/) with k leading letters followed
\* by d digits.
ParseShelfRuns(full, k, d) ==
    IF k >= 1 /\ d >= 1 /\ \A i \in (k + d + 1)..Len(full) : full[i] \in Letters
    THEN ShelfNameOf(full, Take(full, k), SubSeq(full, k + 1, k + d), Drop(full, k + d),
                     ParseInt(SubSeq(full, k + 1, k + d)))
    ELSE NoShelfName(full)

ParseShelfLetters(full, k) == ParseShelfRuns(full, k, RunLen(Drop(full, k), Digits))

ParseShelfFull(full) == ParseShelfLetters(full, RunLen(full, Letters))

parseShelfName(name) == ParseShelfFull(Norm(name))

\* The for loop of matchShelfNameScope from index i on.
RECURSIVE ScanRules(_, _, _, _)
ScanRules(rules, i, prefix, n) ==
    IF i > Len(rules) THEN FALSE
    ELSE IF rules[i].prefix # prefix THEN ScanRules(rules, i + 1, prefix, n)
    ELSE IF n >= rules[i].lo /\ n <= rules[i].hi THEN TRUE
    ELSE ScanRules(rules, i + 1, prefix, n)

\* A scope argument is [kind, text, rules]: kind "absent" (null, undefined),
\* "string" (text), "object" (a compiled scope with rules) or "norules" (an
\* object without a rules list).
AbsentScope == [kind |-> "absent", text |-> << >>, rules |-> << >>]
TextScope(t) == [kind |-> "string", text |-> t, rules |-> << >>]
ObjectScope(rs) == [kind |-> "object", text |-> << >>, rules |-> rs]
NoRulesScope == [kind |-> "norules", text |-> << >>, rules |-> << >>]

\* !scope
ScopeIsFalsy(scope) ==
    scope.kind = "absent" \/ (scope.kind = "string" /\ scope.text = << >>)

\* CompiledOf taking a text as the prefix of one rule instead of compiling it.
CompiledOfPrefix(scope) ==
    IF scope.kind = "string"
    THEN ObjectScope(<< [prefix |-> scope.text, lo |-> 0, hi |-> 99] >>)
    ELSE scope

\* typeof scope === 'string' ? compileShelfScope(scope) : scope
CompiledOf(scope) ==
    IF scope.kind = "string" THEN ObjectScope(compileShelfScope(scope.text, << >>).rules)
    ELSE scope

\* HasNoRules without the test of the length of the rules list.
HasNoRulesList(compiled) == compiled.kind = "norules"

\* !compiled || !compiled.rules || !compiled.rules.length
HasNoRules(compiled) == compiled.kind = "norules" \/ compiled.rules = << >>

\* MatchNumber letting the first rule of the prefix decide.
MatchNumberFirstOfPrefix(prefix, n, rules) ==
    IF prefix = << >> \/ ~IsFinite(n) THEN FALSE
    ELSE \E i \in 1..Len(rules) :
            /\ rules[i].prefix = prefix
            /\ \A j \in 1..(i - 1) : rules[j].prefix # prefix
            /\ n >= rules[i].lo /\ n <= rules[i].hi

\* The part of matchShelfNameScope after prefix and n are set.
MatchNumber(prefix, n, rules) ==
    IF prefix = << >> \/ ~IsFinite(n) THEN FALSE ELSE ScanRules(rules, 1, prefix, n)

\* The part of matchShelfNameScope after parseShelfName.
MatchParts(parts, rules) ==
    IF parts.number = Null THEN FALSE
    ELSE MatchNumber(normalizeScopePrefix(parts.prefix), parts.number, rules)

MatchCompiled(name, compiled) ==
    IF HasNoRules(compiled) THEN TRUE
    ELSE MatchParts(parseShelfName(name), compiled.rules)

matchShelfNameScope(name, scope) ==
    IF ScopeIsFalsy(scope) THEN TRUE ELSE MatchCompiled(name, CompiledOf(scope))

\* list.filter(n => matchShelfNameScope(n, compiled))
RECURSIVE FilterMatching(_, _)
FilterMatching(list, compiled) ==
    IF list = << >> THEN << >>
    ELSE (IF matchShelfNameScope(Head(list), compiled) THEN << Head(list) >> ELSE << >>)
         \o FilterMatching(Tail(list), compiled)

\* FilterCompiled keeping only the first occurrence of an element.
FilterCompiledDistinct(list, compiled) ==
    IF HasNoRules(compiled) THEN list
    ELSE FilterMatching([i \in 1..Len(list) |->
                            IF \E j \in 1..(i - 1) : list[j] = list[i] THEN << >> ELSE list[i]],
                        compiled)

FilterCompiled(list, compiled) ==
    IF HasNoRules(compiled) THEN list ELSE FilterMatching(list, compiled)

\* The elements of the array filterShelfNamesByScope returns: list.slice() or
\* list.filter(...).
FilterElems(list, scope) ==
    IF ScopeIsFalsy(scope) THEN list ELSE FilterCompiled(list, CompiledOf(scope))

\* Arrays live in a heap, a sequence of arrays indexed by reference; slice and
\* filter allocate the array they return.
NewRef(h) == Len(h) + 1

filterShelfNamesByScope(h, namesRef, scope) ==
    [ref |-> NewRef(h), heap |-> Append(h, FilterElems(h[namesRef], scope))]

(***************************************************************************)
(* Inputs.                                                                 *)
(***************************************************************************)
SeqsUpTo(S, n) == UNION { [1..k -> S] : k \in 0..n }

PrefixPool == { << "A" >>, << "a" >>, << "B" >>, << >> }

RulePool == { [prefix |-> p, lo |-> l, hi |-> h] : p \in PrefixPool, l, h \in 1..MaxNum }

\* Rule lists beside the short ones: a bridge between two separate ranges, a
\* range inside another, a rule whose bound is not a number.
RuleListSamples ==
    { << [prefix |-> << "A" >>, lo |-> 1, hi |-> 1], [prefix |-> << "A" >>, lo |-> 3, hi |-> 3],
         [prefix |-> << "a" >>, lo |-> 2, hi |-> 2] >>,
      << [prefix |-> << "A" >>, lo |-> 1, hi |-> 9], [prefix |-> << "A" >>, lo |-> 2, hi |-> 3],
         [prefix |-> << "A" >>, lo |-> 5, hi |-> 6], [prefix |-> << "A" >>, lo |-> 11, hi |-> 12] >>,
      << [prefix |-> << "B" >>, lo |-> 5, hi |-> 7], [prefix |-> << "A" >>, lo |-> 8, hi |-> 9],
         [prefix |-> << "B" >>, lo |-> 1, hi |-> 3], [prefix |-> << " ", "b" >>, lo |-> 9, hi |-> 9] >>,
      << [prefix |-> << "A" >>, lo |-> NaN, hi |-> 3], [prefix |-> << "A" >>, lo |-> 4, hi |-> 2] >> }

RuleLists == SeqsUpTo(RulePool, MaxRules) \cup RuleListSamples

\* Tokens of the grammar of the documentation, tokens the regular expressions of
\* the source accept, and malformed ones.
TokenPool ==
    { << "A", "1", "-", "5" >>, << "A", "6", "-", "1", "0" >>, << "A", "7", "-", "1", "0" >>,
      << "6", "-", "1", "0" >>, << "1", "0", "-", "1", "5" >>,
      << "A", "1", "0", "-", "5" >>, << "a", "1", "-", "5" >>,
      << "A", "1", "-", "1", "0" >>, << "C", ":", "1", "0", "-", "1", "5" >>,
      << "?", "?" >>, << " " >>,
      << "A", BS, "d" >>, << BS, "d", "d", BS, "-", BS, "d" >>,
      << "b", BS, "d", BS, "-", BS, "d" >>,
      << "A", BS, ":", BS, "d" >>, << "A", BS, ":", "1", "-", "5" >>,
      << "A", BS, "s", BS, "d" >>, << BS, "s", "s" >>,
      << "\t", " " >>, << "A", " ", "1", " ", "-", " ", "5" >>, << "A", " ", BS, "d" >>,
      << "A", ":", "x" >> }

RECURSIVE JoinTokens(_)
JoinTokens(tokens) ==
    IF tokens = << >> THEN << >>
    ELSE IF Len(tokens) = 1 THEN tokens[1]
    ELSE tokens[1] \o << ",", " " >> \o JoinTokens(Tail(tokens))

Texts == { JoinTokens(ts) : ts \in SeqsUpTo(TokenPool, MaxTokens) }

ImplicitPool == { << >>, << << "A" >>, << "B" >> >>, << << "b" >>, << " " >> >> }

NamePool ==
    { << "A", "3" >>, << "A", "1", "2" >>, << "B", "1" >>, << "A", "1", "Z" >>,
      << "a", "3" >>, << "?", "?", "?" >>, << >>,
      << "A", "3", "?" >>, << "3" >>, << "A" >> }

NameListSamples ==
    { << << "A", "3" >>, << "A", "1", "2" >>, << "B", "1" >>, << "A", "1", "Z" >> >>,
      << << "A", "3" >>, << "B", "1" >>, << "A", "3" >> >> }

NameLists == SeqsUpTo(NamePool, MaxNames) \cup NameListSamples

ScopePool ==
    { AbsentScope, NoRulesScope, ObjectScope(<< >>),
      TextScope(<< >>), TextScope(<< "A", "1", "-", "1", "0" >>),
      TextScope(<< "A", BS, "d" >>),
      ObjectScope(<< [prefix |-> << "A" >>, lo |-> 1, hi |-> 10] >>),
      ObjectScope(<< [prefix |-> << "A" >>, lo |-> 1, hi |-> 5] >>),
      ObjectScope(<< [prefix |-> << "B" >>, lo |-> 1, hi |-> 1],
                     [prefix |-> << "A" >>, lo |-> 12, hi |-> 12] >>),
      ObjectScope(<< [prefix |-> << "A" >>, lo |-> 1, hi |-> 2],
                     [prefix |-> << "A" >>, lo |-> 2, hi |-> 12] >>),
      ObjectScope(<< [prefix |-> << "a" >>, lo |-> 1, hi |-> 5] >>) }

(***************************************************************************)
(* The calls.  One behaviour is one call of one of the four functions on   *)
(* arguments chosen at the start.                                          *)
(***************************************************************************)
VARIABLES pc, op, rulesIn, text, implicitPrefixes, name, scope, names, heap,
          merged, compiled, matched, filtered,
          parts,   \* tokens of the running compileShelfScope call still to be visited
          st,      \* rules, errors and lastPrefix of the running compileShelfScope call
          calls    \* the compileShelfScope calls completed so far, with their results

callVars == << parts, st, calls >>

scopeVars == << pc, op, rulesIn, text, implicitPrefixes, name, scope, names, heap,
               merged, compiled, matched, filtered, parts, st, calls >>

\* The resku queue.
VARIABLES reskuQueue,  \* _reskuQueue: the promise at the tail of the chain, 0 for Promise.resolve()
          tasks,       \* the tasks handed to enqueueResku, in call order
          promises,    \* promises[i] is the promise enqueueResku returned for tasks[i]
          started,     \* the tasks whose body has been started, in start order
          refused      \* apiUpdateShelf calls that threw before reaching the queue

reskuVars == << reskuQueue, tasks, promises, started, refused >>

ReskuIdle ==
    reskuQueue = 0 /\ tasks = << >> /\ promises = << >> /\ started = << >> /\ refused = 0

\* One call of asyncUtils.runWithConcurrency.
VARIABLES poolState,    \* "idle" before the call, "running", "resolved" when results is returned
          poolArgs,     \* [total, concurrency, onProgress]: items.length and the options
          index,        \* the next index to hand out
          completed,    \* the number of worker calls that have fulfilled
          results,      \* results[i] for i in 0..total-1, Null where nothing is stored yet
          lanes,        \* lanes[k] = [awaiting, current]: the workerLoop calls
          workerCalls,  \* the indexes the worker was invoked with, in call order
          progress      \* the completed values passed to onProgress, in call order

poolVars == << poolState, poolArgs, index, completed, results, lanes, workerCalls, progress >>

PoolIdle ==
    /\ poolState = "idle"
    /\ poolArgs = [total |-> 0, concurrency |-> Null, onProgress |-> FALSE]
    /\ index = 0 /\ completed = 0 /\ results = << >> /\ lanes = << >>
    /\ workerCalls = << >> /\ progress = << >>

\* One call of asyncUtils.retry.
VARIABLES retryState,   \* "idle", "calling" (awaiting fn), "sleeping", "resolved", "rejected"
          retryArgs,    \* [retries, factor, delayMs]: the options, Null where absent
          attempt,      \* the local variable attempt
          delayMs,      \* the local variable delayMs
          lastErr,      \* the local variable lastErr, Null while undefined
          fnLog,        \* the calls of fn in call order: [attempt, outcome]
          sleeps,       \* the delays passed to asyncUtils.sleep, in call order
          retryResult   \* what the returned promise settled with, Null before

retryVars == << retryState, retryArgs, attempt, delayMs, lastErr, fnLog, sleeps, retryResult >>

RetryIdle ==
    /\ retryState = "idle"
    /\ retryArgs = [retries |-> Null, factor |-> Null, delayMs |-> Null]
    /\ attempt = 0 /\ delayMs = 0 /\ lastErr = Null /\ fnLog = << >> /\ sleeps = << >>
    /\ retryResult = Null

\* One call of onAdded and the observer it creates.
VARIABLES obsState,    \* "idle", "observing", "disconnected"
          obsConfig,   \* [debounce, throwing]: debounceMs > 0, elements the callback throws on
          obs          \* [seen, queued, timer, timers, delivered]: the closure's
                       \* seen, queued and timer (TRUE when not null), the number of
                       \* flush timers not yet fired, and the calls of callback in order

observerVars == << obsState, obsConfig, obs >>

ObserverIdle ==
    /\ obsState = "idle"
    /\ obsConfig = [debounce |-> FALSE, throwing |-> {}]
    /\ obs = [seen |-> {}, queued |-> << >>, timer |-> FALSE, timers |-> 0,
              delivered |-> << >>]

\* One call of loadInIframe.
VARIABLES frameConfig,  \* [ready, selector]: whether config.ready is a function, config.selector is set
          frame,        \* [promise, result, done, attached, timeout]: the returned
                        \* promise ("none", "pending", "resolved", "rejected"), what
                        \* it settled with, the flag done, whether the iframe is in
                        \* the document, and the timeout timer ("none", "pending",
                        \* "cancelled", "fired")
          waits,        \* promises of ready(w, d) or dom.waitFor not yet settled
          loads         \* load events dispatched so far

iframeVars == << frameConfig, frame, waits, loads >>

IframeIdle ==
    /\ frameConfig = [ready |-> FALSE, selector |-> FALSE]
    /\ frame = [promise |-> "none", result |-> "none", done |-> FALSE, attached |-> FALSE,
                timeout |-> "none"]
    /\ waits = 0 /\ loads = 0

asyncVars == << reskuVars, poolVars, retryVars, observerVars, iframeVars >>

AsyncIdle == ReskuIdle /\ PoolIdle /\ RetryIdle /\ ObserverIdle /\ IframeIdle

notResku == << scopeVars, poolVars, retryVars, observerVars, iframeVars >>

notPool == << scopeVars, reskuVars, retryVars, observerVars, iframeVars >>

notRetry == << scopeVars, reskuVars, poolVars, observerVars, iframeVars >>

notObserver == << scopeVars, reskuVars, poolVars, retryVars, iframeVars >>

notIframe == << scopeVars, reskuVars, poolVars, retryVars, observerVars >>

vars == << scopeVars, asyncVars >>

NoState == [rules |-> << >>, errors |-> << >>, lastPrefix |-> << >>]

NoCompiled == [raw |-> << >>, rules |-> << >>, errors |-> << >>, implicitPrefixes |-> << >>]

Init ==
    /\ pc = "call"
    /\ merged = << >>
    /\ compiled = NoCompiled
    /\ matched = FALSE
    /\ filtered = 0
    /\ parts = << >> /\ st = NoState /\ calls = << >>
    /\ AsyncIdle
    /\ \/ /\ op = "merge"
          /\ rulesIn \in RuleLists
          /\ text = << >> /\ implicitPrefixes = << >> /\ name = << >>
          /\ scope = AbsentScope /\ names = 0 /\ heap = rulesIn
       \/ /\ op = "compile"
          /\ text \in Texts
          /\ implicitPrefixes \in ImplicitPool
          /\ rulesIn = << >> /\ name = << >>
          /\ scope = AbsentScope /\ names = 0 /\ heap = << >>
       \/ /\ op = "match"
          /\ name \in NamePool
          /\ scope \in ScopePool
          /\ rulesIn = << >> /\ text = << >> /\ implicitPrefixes = << >>
          /\ names = 0 /\ heap = << >>
       \/ /\ op = "filter"
          /\ \E list \in NameLists : heap = << list >>
          /\ names = 1
          /\ scope \in ScopePool
          /\ rulesIn = << >> /\ text = << >> /\ implicitPrefixes = << >> /\ name = << >>

\* MergeHeap writing the ordered bounds back into the rule objects of the list.
MergeHeapOrdersInput(h, out) ==
    [ i \in 1..Len(h) |-> [h[i] EXCEPT !.lo = Min(h[i].lo, h[i].hi),
                                       !.hi = Max(h[i].lo, h[i].hi)] ] \o out

\* The objects after mergeScopeRules: the rule objects of the list as they
\* were, then the objects { prefix, lo, hi } created for the returned list out.
MergeHeap(h, out) == h \o out

\* For a merge the heap holds the rule objects of the list, in list order.
Merge ==
    /\ pc = "call" /\ op = "merge"
    /\ merged' = mergeScopeRules(rulesIn)
    /\ heap' = MergeHeap(heap, merged')
    /\ pc' = "done"
    /\ UNCHANGED << op, rulesIn, text, implicitPrefixes, name, scope, names,
                    compiled, matched, filtered >>
    /\ UNCHANGED << callVars, asyncVars >>

Compile ==
    /\ pc = "call" /\ op = "compile"
    /\ compiled' = compileShelfScope(text, implicitPrefixes)
    /\ pc' = "done"
    /\ UNCHANGED << op, rulesIn, text, implicitPrefixes, name, scope, names, heap,
                    merged, matched, filtered >>
    /\ UNCHANGED << callVars, asyncVars >>

Match ==
    /\ pc = "call" /\ op = "match"
    /\ matched' = matchShelfNameScope(name, scope)
    /\ pc' = "done"
    /\ UNCHANGED << op, rulesIn, text, implicitPrefixes, name, scope, names, heap,
                    merged, compiled, filtered >>
    /\ UNCHANGED << callVars, asyncVars >>

Filter ==
    /\ pc = "call" /\ op = "filter"
    /\ LET r == filterShelfNamesByScope(heap, names, scope)
       IN  /\ filtered' = r.ref
           /\ heap' = r.heap
    /\ pc' = "done"
    /\ UNCHANGED << op, rulesIn, text, implicitPrefixes, name, scope, names,
                    merged, compiled, matched >>
    /\ UNCHANGED << callVars, asyncVars >>

Next == Merge \/ Compile \/ Match \/ Filter

Spec == Init /\ [][Next]_vars

-----------------------------------------------------------------------------
\* A session: successive calls of the page's scripts, one at a time.  A
\* compileShelfScope call visits its tokens one by one; its rules, errors and
\* lastPrefix are the variables it declares on entry.

MaxCalls == 3

SessionTexts ==
    { << BS, "d" >>, << "A", BS, "d" >>, << "A", "1", "-", "5", ",", " ", "?", "?" >>, << " " >> }

SessionImplicits == { << >>, << << "A" >>, << "B" >> >> }

SessionNames == { << "A", "3" >> }

SessionScopes ==
    { TextScope(<< "A", BS, "d" >>), ObjectScope(<< [prefix |-> << "A" >>, lo |-> 1, hi |-> 5] >>) }

SessionList == << << "A", "3" >>, << "B", "1" >> >>

InitCalls ==
    /\ pc = "idle" /\ op = "none"
    /\ rulesIn = << >> /\ text = << >> /\ implicitPrefixes = << >> /\ name = << >>
    /\ scope = AbsentScope /\ names = 1 /\ heap = << SessionList >>
    /\ merged = << >> /\ compiled = NoCompiled /\ matched = FALSE /\ filtered = 0
    /\ parts = << >> /\ st = NoState /\ calls = << >>
    /\ AsyncIdle

Call(t, ip, result) == [text |-> t, implicitPrefixes |-> ip, result |-> result]

\* BeginState with lastPrefix declared outside the function: the value left by
\* the previous call is still there.
BeginStateKeepsPrefix(prev) == [rules |-> << >>, errors |-> << >>, lastPrefix |-> prev.lastPrefix]

\* const rules = []; const errors = []; let lastPrefix = null; prev is what
\* the previous call left behind.
BeginState(prev) == [rules |-> << >>, errors |-> << >>, lastPrefix |-> << >>]

\* Entry of compileShelfScope(t, {implicitPrefixes: ip}) up to the loop, or its
\* return for an empty text.
BeginCompile ==
    /\ pc = "idle" /\ Len(calls) < MaxCalls
    /\ \E t \in SessionTexts, ip \in SessionImplicits :
          /\ text' = t /\ implicitPrefixes' = ip /\ op' = "compile"
          /\ IF Norm(t) = << >>
             THEN /\ compiled' = [raw |-> << >>, rules |-> << >>, errors |-> << >>,
                                  implicitPrefixes |-> ImplicitOf(ip)]
                  /\ calls' = Append(calls, Call(t, ip, compiled'))
                  /\ pc' = "idle"
                  /\ UNCHANGED << parts, st >>
             ELSE /\ parts' = Parts(Norm(t))
                  /\ st' = BeginState(st)
                  /\ pc' = "tokens"
                  /\ UNCHANGED << compiled, calls >>
    /\ UNCHANGED << rulesIn, name, scope, names, heap, merged, matched, filtered >>
    /\ UNCHANGED asyncVars

\* One turn of parts.forEach.
TokenStep ==
    /\ pc = "tokens" /\ parts # << >>
    /\ st' = CompileToken(st, Head(parts), ImplicitOf(implicitPrefixes))
    /\ parts' = Tail(parts)
    /\ UNCHANGED << pc, op, rulesIn, text, implicitPrefixes, name, scope, names, heap,
                    merged, compiled, matched, filtered, calls >>
    /\ UNCHANGED asyncVars

\* The return statement after the loop.
ReturnCompile ==
    /\ pc = "tokens" /\ parts = << >>
    /\ compiled' = CompileResult(Norm(text), ImplicitOf(implicitPrefixes), st)
    /\ calls' = Append(calls, Call(text, implicitPrefixes, compiled'))
    /\ pc' = "idle"
    /\ UNCHANGED << op, rulesIn, text, implicitPrefixes, name, scope, names, heap,
                    merged, matched, filtered, parts, st >>
    /\ UNCHANGED asyncVars

MatchCall ==
    /\ pc = "idle"
    /\ \E n \in SessionNames, sc \in SessionScopes :
          /\ name' = n /\ scope' = sc
          /\ matched' = matchShelfNameScope(n, sc)
    /\ op' = "match"
    /\ UNCHANGED << pc, rulesIn, text, implicitPrefixes, names, heap, merged, compiled,
                    filtered >>
    /\ UNCHANGED << callVars, asyncVars >>

FilterCall ==
    /\ pc = "idle" /\ filtered = 0
    /\ \E sc \in SessionScopes :
          /\ scope' = sc
          /\ filtered' = filterShelfNamesByScope(heap, names, sc).ref
          /\ heap' = filterShelfNamesByScope(heap, names, sc).heap
    /\ op' = "filter"
    /\ UNCHANGED << pc, rulesIn, text, implicitPrefixes, name, names, merged, compiled,
                    matched >>
    /\ UNCHANGED << callVars, asyncVars >>

NextCalls == BeginCompile \/ TokenStep \/ ReturnCompile \/ MatchCall \/ FilterCall

SpecCalls == InitCalls /\ [][NextCalls]_vars

-----------------------------------------------------------------------------
\* The resku queue: enqueueResku chains each task to the promise of the task
\* before it.  A promise is [state, by]: state "pending", "fulfilled" or
\* "rejected", by the task whose outcome settled it.  A task is [after, kind,
\* status]: after is the promise its start waits for, status "queued",
\* "running", "fulfilled" or "rejected".

MaxTasks == 3

TaskKinds == { "task", "updateShelf" }

Pending == [state |-> "pending", by |-> 0]

Outcomes == { "fulfilled", "rejected" }

\* then(run, run): run is called when promise p is fulfilled and when it is
\* rejected; promise 0 is Promise.resolve().
Runs(p) == IF p = 0 THEN TRUE ELSE promises[p].state \in Outcomes

\* NewTail with the promise of then(run, run) returned but not stored.
NewTailStale(old, new) == old

\* _reskuQueue = _reskuQueue.then(run, run): new is the promise then returns.
NewTail(old, new) == new

\* enqueueResku(task), called directly (kind "task") or by apiUpdateShelf.
Enqueue(kind) ==
    /\ Len(tasks) < MaxTasks
    /\ tasks' = Append(tasks, [after |-> reskuQueue, kind |-> kind, status |-> "queued"])
    /\ promises' = Append(promises, Pending)
    /\ reskuQueue' = NewTail(reskuQueue, Len(promises) + 1)
    /\ UNCHANGED started

enqueueResku ==
    /\ Enqueue("task")
    /\ UNCHANGED refused
    /\ UNCHANGED notResku

\* apiUpdateShelf(listingId, targetShelf): throws for an empty id or shelf,
\* else enqueues its task.
apiUpdateShelf ==
    /\ \E valid \in BOOLEAN :
          IF valid
          THEN Enqueue("updateShelf") /\ UNCHANGED refused
          ELSE /\ refused < MaxTasks
               /\ refused' = refused + 1
               /\ UNCHANGED << reskuQueue, tasks, promises, started >>
    /\ UNCHANGED notResku

\* The reaction of then(run, run): run calls task().
RunTask ==
    /\ \E i \in 1..Len(tasks) :
          /\ tasks[i].status = "queued"
          /\ Runs(tasks[i].after)
          /\ tasks' = [tasks EXCEPT ![i].status = "running"]
          /\ started' = Append(started, i)
    /\ UNCHANGED << reskuQueue, promises, refused >>
    /\ UNCHANGED notResku

\* The promise of task() settles: the body of the task is over.
TaskSettles ==
    /\ \E i \in 1..Len(tasks), outcome \in Outcomes :
          /\ tasks[i].status = "running"
          /\ tasks' = [tasks EXCEPT ![i].status = outcome]
    /\ UNCHANGED << reskuQueue, promises, started, refused >>
    /\ UNCHANGED notResku

\* The promise then(run, run) returned takes the outcome of run's promise.
PromiseSettles ==
    /\ \E i \in 1..Len(tasks) :
          /\ tasks[i].status \in Outcomes
          /\ promises[i] = Pending
          /\ promises' = [promises EXCEPT ![i] = [state |-> tasks[i].status, by |-> i]]
    /\ UNCHANGED << reskuQueue, tasks, started, refused >>
    /\ UNCHANGED notResku

NextResku == enqueueResku \/ apiUpdateShelf \/ RunTask \/ TaskSettles \/ PromiseSettles

SpecResku == InitCalls /\ [][NextResku]_vars

-----------------------------------------------------------------------------
\* asyncUtils.runWithConcurrency(items, worker, options) for a worker that
\* always fulfils.  Indexes run from 0 as in the code.

MaxItems == 3

\* options.concurrency: absent (Null) or a whole number.
Concurrencies == { Null } \cup 0..(MaxItems + 1)

\* The value the worker's promise fulfils with for items[i].
WorkerValue(i) == 10 + i

\* options.concurrency == null ? 4 : options.concurrency
ConcurrencyOf(args) == IF args.concurrency = Null THEN 4 ELSE args.concurrency

\* Math.max(1, Math.min(concurrency, total))
LaneCount(args) == Max(1, Min(ConcurrencyOf(args), args.total))

\* workerLoop from the top of the loop to its await or its return: the lane
\* takes the index nxt, and awaits the worker if there is such an item.
LaneAt(nxt, total) == [awaiting |-> nxt < total, current |-> nxt]

\* StoreResult putting the result after the results stored so far.
StoreResultPush(res, current, result) ==
    [res EXCEPT ![CHOOSE i \in DOMAIN res :
                     res[i] = Null /\ \A j \in DOMAIN res : res[j] = Null => i <= j] = result]

\* results[current] = result
StoreResult(res, current, result) == [res EXCEPT ![current] = result]

\* The call: the lanes are started one after the other, each up to its first
\* await.
runWithConcurrency ==
    /\ poolState = "idle"
    /\ \E n \in 0..MaxItems, c \in Concurrencies, cb \in BOOLEAN :
          /\ poolArgs' = [total |-> n, concurrency |-> c, onProgress |-> cb]
          /\ results' = [i \in 0..(n - 1) |-> Null]
          /\ lanes' = [k \in 1..LaneCount(poolArgs') |-> LaneAt(k - 1, n)]
          /\ index' = Min(LaneCount(poolArgs'), n)
          /\ workerCalls' = [k \in 1..Min(LaneCount(poolArgs'), n) |-> k - 1]
    /\ poolState' = "running"
    /\ UNCHANGED << completed, progress >>
    /\ UNCHANGED notPool

\* The worker's promise of lane k fulfils: the lane stores the result, reports
\* progress and goes round the loop to its next await or its return.
WorkerFulfils ==
    /\ poolState = "running"
    /\ \E k \in 1..Len(lanes) :
          /\ lanes[k].awaiting
          /\ results' = StoreResult(results, lanes[k].current, WorkerValue(lanes[k].current))
          /\ lanes' = [lanes EXCEPT ![k] = LaneAt(index, poolArgs.total)]
    /\ completed' = completed + 1
    /\ progress' = IF poolArgs.onProgress THEN Append(progress, completed') ELSE progress
    /\ index' = IF index < poolArgs.total THEN index + 1 ELSE index
    /\ workerCalls' = IF index < poolArgs.total THEN Append(workerCalls, index) ELSE workerCalls
    /\ UNCHANGED << poolState, poolArgs >>
    /\ UNCHANGED notPool

\* await Promise.all(lanes); return results
PoolResolves ==
    /\ poolState = "running"
    /\ \A k \in 1..Len(lanes) : ~lanes[k].awaiting
    /\ poolState' = "resolved"
    /\ UNCHANGED << poolArgs, index, completed, results, lanes, workerCalls, progress >>
    /\ UNCHANGED notPool

NextPool == runWithConcurrency \/ WorkerFulfils \/ PoolResolves

SpecPool == InitCalls /\ [][NextPool]_vars

-----------------------------------------------------------------------------
\* asyncUtils.retry(fn, options).  The value fn fulfils with and the error it
\* rejects with are named after the attempt that produced them.

MaxRetries == 3

RetryOptions ==
    [retries : { Null } \cup 0..MaxRetries, factor : { Null, 3 }, delayMs : { Null, 10 }]

\* options.retries == null ? 3 : options.retries
RetriesOf(args) == IF args.retries = Null THEN 3 ELSE args.retries
\* options.factor == null ? 2 : options.factor
FactorOf(args) == IF args.factor = Null THEN 2 ELSE args.factor
\* options.delayMs == null ? 500 : options.delayMs
DelayOf(args) == IF args.delayMs = Null THEN 500 ELSE args.delayMs

ValueOf(a) == [ok |-> TRUE, attempt |-> a]
ErrorOf(a) == [ok |-> FALSE, attempt |-> a]

\* IsLastAttempt without the break: the loop sleeps after the last attempt too.
IsLastAttemptNever(a, retries) == FALSE

\* if (attempt === retries) break
IsLastAttempt(a, retries) == a = retries

\* The call up to the first await: fn(0) is invoked.
retry ==
    /\ retryState = "idle"
    /\ \E args \in RetryOptions :
          /\ retryArgs' = args
          /\ delayMs' = DelayOf(args)
          /\ IF 0 <= RetriesOf(args)
             THEN retryState' = "calling" /\ fnLog' = << [attempt |-> 0, outcome |-> "pending"] >>
             ELSE retryState' = "rejected" /\ fnLog' = << >>
    /\ attempt' = 0
    /\ UNCHANGED << lastErr, sleeps, retryResult >>
    /\ UNCHANGED notRetry

\* return await fn(attempt), fn's promise fulfilling.
FnFulfils ==
    /\ retryState = "calling"
    /\ fnLog' = [fnLog EXCEPT ![Len(fnLog)].outcome = "fulfilled"]
    /\ retryResult' = ValueOf(attempt)
    /\ retryState' = "resolved"
    /\ UNCHANGED << retryArgs, attempt, delayMs, lastErr, sleeps >>
    /\ UNCHANGED notRetry

\* The catch block: break and throw lastErr after the last attempt, else
\* start the sleep.
FnRejects ==
    /\ retryState = "calling"
    /\ fnLog' = [fnLog EXCEPT ![Len(fnLog)].outcome = "rejected"]
    /\ lastErr' = ErrorOf(attempt)
    /\ IF IsLastAttempt(attempt, RetriesOf(retryArgs))
       THEN /\ retryState' = "rejected"
            /\ retryResult' = lastErr'
            /\ UNCHANGED sleeps
       ELSE /\ retryState' = "sleeping"
            /\ sleeps' = Append(sleeps, delayMs)
            /\ UNCHANGED retryResult
    /\ UNCHANGED << retryArgs, attempt, delayMs >>
    /\ UNCHANGED notRetry

\* The timer of asyncUtils.sleep fires: delayMs *= factor; attempt += 1; then
\* the test of the loop and the next call of fn, or throw lastErr.
SleepEnds ==
    /\ retryState = "sleeping"
    /\ delayMs' = delayMs * FactorOf(retryArgs)
    /\ attempt' = attempt + 1
    /\ IF attempt' <= RetriesOf(retryArgs)
       THEN /\ retryState' = "calling"
            /\ fnLog' = Append(fnLog, [attempt |-> attempt', outcome |-> "pending"])
            /\ UNCHANGED retryResult
       ELSE /\ retryState' = "rejected"
            /\ retryResult' = lastErr
            /\ UNCHANGED fnLog
    /\ UNCHANGED << retryArgs, lastErr, sleeps >>
    /\ UNCHANGED notRetry

NextRetry == retry \/ FnFulfils \/ FnRejects \/ SleepEnds

\* fn's promise settles and the timer of a sleep fires.
SpecRetry == InitCalls /\ [][NextRetry]_vars /\ WF_vars(NextRetry)

-----------------------------------------------------------------------------
\* onAdded(config).  Elements are numbered; a batch is the sequence of
\* matching elements one run of the observer callback (or the initial
\* dom.qsa) passes to enqueue.

MaxElements == 3

Batches == UNION { [1..n -> 1..MaxElements] : n \in 1..2 }

\* flush()
flushQueued(s, throwing) ==
    IF s.queued = << >> THEN s
    ELSE [s EXCEPT !.queued = << >>, !.timer = FALSE,
                   !.delivered = s.delivered \o
                       [i \in 1..Len(s.queued) |->
                           [el |-> s.queued[i], threw |-> s.queued[i] \in throwing]]]

\* enqueue(el)
Enqueue1(s, el, cfg) ==
    IF el \in s.seen THEN s
    ELSE IF cfg.debounce
         THEN [s EXCEPT !.seen = s.seen \cup { el }, !.queued = Append(s.queued, el),
                        !.timer = TRUE,
                        !.timers = IF s.timer THEN s.timers ELSE s.timers + 1]
         ELSE flushQueued([s EXCEPT !.seen = s.seen \cup { el }, !.queued = Append(s.queued, el)],
                    cfg.throwing)

\* els.forEach(enqueue)
RECURSIVE EnqueueEach(_, _, _)
EnqueueEach(s, els, cfg) ==
    IF els = << >> THEN s
    ELSE EnqueueEach(Enqueue1(s, Head(els), cfg), Tail(els), cfg)

\* The call: the elements already in the document are enqueued, then the
\* observer is started.
onAdded ==
    /\ obsState = "idle"
    /\ \E d \in BOOLEAN, t \in { {}, { 1 } }, present \in { << >> } \cup Batches :
          /\ obsConfig' = [debounce |-> d, throwing |-> t]
          /\ obs' = EnqueueEach(obs, present, obsConfig')
    /\ obsState' = "observing"
    /\ UNCHANGED notObserver

\* The observer's callback runs on a batch of added elements.
Mutation ==
    /\ obsState = "observing"
    /\ \E b \in Batches : obs' = EnqueueEach(obs, b, obsConfig)
    /\ UNCHANGED << obsState, obsConfig >>
    /\ UNCHANGED notObserver

\* The timer set by window.setTimeout(flush, debounceMs) fires.
FlushTimer ==
    /\ obs.timers > 0
    /\ obs' = flushQueued([obs EXCEPT !.timers = obs.timers - 1], obsConfig.throwing)
    /\ UNCHANGED << obsState, obsConfig >>
    /\ UNCHANGED notObserver

\* The returned function: observer.disconnect().
Disconnect ==
    /\ obsState = "observing"
    /\ obsState' = "disconnected"
    /\ UNCHANGED << obsConfig, obs >>
    /\ UNCHANGED notObserver

NextObserver == onAdded \/ Mutation \/ FlushTimer \/ Disconnect

SpecObserver == InitCalls /\ [][NextObserver]_vars

-----------------------------------------------------------------------------
\* loadInIframe(config).

MaxLoads == 3

\* resolve(result) or reject(err) of the returned promise: only the first
\* call settles it.
settle(s, how, result) ==
    IF s.promise = "pending" THEN [s EXCEPT !.promise = how, !.result = result] ELSE s

\* finish(result)
finish(s, result) ==
    IF s.done THEN s
    ELSE settle([s EXCEPT !.done = TRUE,
                          !.timeout = IF s.timeout = "pending" THEN "cancelled" ELSE s.timeout,
                          !.attached = FALSE],
                "resolved", result)

\* The call: the timer is started and the iframe appended to the document.
loadInIframe ==
    /\ frame.promise = "none"
    /\ frameConfig' \in [ready : BOOLEAN, selector : BOOLEAN]
    /\ frame' = [promise |-> "pending", result |-> "none", done |-> FALSE,
                 attached |-> TRUE, timeout |-> "pending"]
    /\ UNCHANGED << waits, loads >>
    /\ UNCHANGED notIframe

\* The callback of setTimeout runs.
TimeoutFires ==
    /\ frame.timeout = "pending"
    /\ frame' = IF frame.done THEN [frame EXCEPT !.timeout = "fired"]
                ELSE settle([frame EXCEPT !.timeout = "fired", !.done = TRUE,
                                          !.attached = FALSE],
                            "rejected", "timeout")
    /\ UNCHANGED << frameConfig, waits, loads >>
    /\ UNCHANGED notIframe

\* The load listener runs.  A detached iframe has no contentWindow; ready
\* may throw before returning a promise.
LoadEvent ==
    /\ frame.promise # "none"
    /\ loads < MaxLoads
    /\ loads' = loads + 1
    /\ \E hasDoc \in (IF frame.attached THEN BOOLEAN ELSE { FALSE }),
          throws \in (IF frameConfig.ready THEN BOOLEAN ELSE { FALSE }) :
          IF ~hasDoc \/ (~frameConfig.ready /\ ~frameConfig.selector)
          THEN frame' = finish(frame, "frame") /\ UNCHANGED waits
          ELSE IF throws
               THEN frame' = settle(frame, "rejected", "error") /\ UNCHANGED waits
               ELSE waits' = waits + 1 /\ UNCHANGED frame
    /\ UNCHANGED frameConfig
    /\ UNCHANGED notIframe

\* The promise of ready(w, d) or of dom.waitFor settles: finish on
\* fulfilment, reject(err) on rejection.
WaitSettles ==
    /\ waits > 0
    /\ waits' = waits - 1
    /\ \E ok \in BOOLEAN :
          frame' = IF ok THEN finish(frame, "value") ELSE settle(frame, "rejected", "error")
    /\ UNCHANGED << frameConfig, loads >>
    /\ UNCHANGED notIframe

NextIframe == loadInIframe \/ TimeoutFires \/ LoadEvent \/ WaitSettles

SpecIframe == InitCalls /\ [][NextIframe]_vars

(***************************************************************************)
(* Properties.                                                             *)
(***************************************************************************)
RuleOf(p, lo, hi) == [prefix |-> p, lo |-> lo, hi |-> hi]

Done(o) == pc = "done" /\ op = o

\* No two rules of the list that share a prefix overlap or touch.
NonOverlapping(rules) ==
    \A i, j \in 1..Len(rules) :
        (i # j /\ rules[i].prefix = rules[j].prefix /\ rules[i].lo <= rules[j].lo)
            => rules[i].hi + 1 < rules[j].lo

\* C1: in the output of mergeScopeRules and in the rules of every compiled
\* scope, two rules that share a prefix, taken in ascending lo order as (a, b),
\* satisfy hi_a + 1 < lo_b.
C1_NonOverlap ==
    /\ Done("merge") => NonOverlapping(merged)
    /\ Done("compile") => NonOverlapping(compiled.rules)

\* A merge that coalesced some rules and still returns two rules of one prefix.
C1_Witness ==
    /\ Done("merge")
    /\ Len(merged) < Len(NormalizedRules(rulesIn))
    /\ \E i, j \in 1..Len(merged) : i # j /\ merged[i].prefix = merged[j].prefix

\* C2: merging the output of mergeScopeRules again gives the same set of rules.
C2_IdempotentMerge ==
    Done("merge") => Range(mergeScopeRules(merged)) = Range(merged)

\* A merge that changed its input and returns at least two rules.
C2_Witness ==
    /\ Done("merge")
    /\ Len(merged) >= 2
    /\ Range(merged) # Range(rulesIn)

\* The numbers a rule list can cover, and one more on each side.
Numbers(rules) ==
    0..(1 + Max(MaxNum, Max(0, CHOOSE m \in { Max(rules[i].lo, rules[i].hi) : i \in 1..Len(rules) } \cup { 0 } :
                   \A i \in 1..Len(rules) : m >= Max(rules[i].lo, rules[i].hi))))

Covers(r, n) == Min(r.lo, r.hi) <= n /\ n <= Max(r.lo, r.hi)

IntegerBounds(rules) == \A i \in 1..Len(rules) : IsFinite(rules[i].lo) /\ IsFinite(rules[i].hi)

PrefixesOf(rules) ==
    UNION { { rules[i].prefix, ToUpperCase(rules[i].prefix), normalizeScopePrefix(rules[i].prefix) } :
            i \in 1..Len(rules) }

\* C3 as stated: the merged list covers (p, n) exactly when some input rule whose
\* upper-cased prefix is p covers n.
C3_CoverageByUpperCase ==
    (Done("merge") /\ IntegerBounds(rulesIn)) =>
        \A p \in PrefixesOf(rulesIn) \cup PrefixesOf(merged) : \A n \in Numbers(rulesIn) :
            (\E i \in 1..Len(merged) : merged[i].prefix = p /\ Covers(merged[i], n))
            <=> (\E i \in 1..Len(rulesIn) :
                    ToUpperCase(rulesIn[i].prefix) = p /\ Covers(rulesIn[i], n))

\* C3 amended: for every non-empty prefix p and every n, the merged list covers
\* (p, n) exactly when some input rule whose normalized prefix (trimmed, white
\* space collapsed, upper-cased) is p covers n.
C3_CoveragePreserved ==
    (Done("merge") /\ IntegerBounds(rulesIn)) =>
        \A p \in (PrefixesOf(rulesIn) \cup PrefixesOf(merged)) \ { << >> } :
          \A n \in Numbers(rulesIn) :
            (\E i \in 1..Len(merged) : merged[i].prefix = p /\ Covers(merged[i], n))
            <=> (\E i \in 1..Len(rulesIn) :
                    normalizeScopePrefix(rulesIn[i].prefix) = p /\ Covers(rulesIn[i], n))

\* A merge of rules with integer bounds that coalesced rules written with
\* different letter case and a reversed range.
C3_Witness ==
    /\ Done("merge") /\ IntegerBounds(rulesIn)
    /\ Len(merged) = 1 /\ Len(rulesIn) >= 2
    /\ \E i, j \in 1..Len(rulesIn) :
          /\ rulesIn[i].prefix # rulesIn[j].prefix
          /\ normalizeScopePrefix(rulesIn[i].prefix) = normalizeScopePrefix(rulesIn[j].prefix)
          /\ rulesIn[i].lo > rulesIn[i].hi

T_A1_5 == << "A", "1", "-", "5" >>
T_A6_10 == << "A", "6", "-", "1", "0" >>
T_A7_10 == << "A", "7", "-", "1", "0" >>
T_6_10 == << "6", "-", "1", "0" >>
T_10_15 == << "1", "0", "-", "1", "5" >>
T_A10_5 == << "A", "1", "0", "-", "5" >>
T_A1_10 == << "A", "1", "-", "1", "0" >>
PA == << "A" >>
PB == << "B" >>

Compiled(t) == Done("compile") /\ text = t

\* C4: compiling "A1-5, A6-10" yields exactly the rule {A,1,10}; contiguous or
\* overlapping ranges of one prefix compile to one rule, ranges two or more
\* apart ("A1-5, A7-10") to two.
C4_AdjacencyMerges ==
    /\ Compiled(JoinTokens(<< T_A1_5, T_A6_10 >>))
          => compiled.rules = << RuleOf(PA, 1, 10) >>
    /\ Compiled(JoinTokens(<< T_A1_5, T_A7_10 >>))
          => compiled.rules = << RuleOf(PA, 1, 5), RuleOf(PA, 7, 10) >>

\* C5: compiling "A1-5, 6-10" yields the single rule {A,1,10} and no errors,
\* whatever the implicit prefixes are.
C5_PrefixCarryOver ==
    Compiled(JoinTokens(<< T_A1_5, T_6_10 >>))
        => compiled.rules = << RuleOf(PA, 1, 10) >> /\ compiled.errors = << >>

\* C6: compiling "10-15" with implicit prefixes A and B yields exactly the rules
\* {A,10,15} and {B,10,15} and no errors.
C6_ImplicitFanOut ==
    (Compiled(T_10_15) /\ implicitPrefixes = << PA, PB >>)
        => /\ compiled.rules = << RuleOf(PA, 10, 15), RuleOf(PB, 10, 15) >>
           /\ compiled.errors = << >>

\* C7: compiling "10-15" with no implicit prefixes yields no rules and exactly
\* the error "Missing prefix for: 10-15".
C7_MissingPrefix ==
    (Compiled(T_10_15) /\ implicitPrefixes = << >>)
        => /\ compiled.rules = << >>
           /\ compiled.errors = << Error("Missing prefix for: ", T_10_15) >>

\* C8: every rule of a compiled scope has lo <= hi and "A10-5" compiles to
\* {A,5,10}.
C8_RuleNormalization ==
    /\ Done("compile") => \A i \in 1..Len(compiled.rules) : compiled.rules[i].lo <= compiled.rules[i].hi
    /\ Compiled(T_A10_5) => compiled.rules = << RuleOf(PA, 5, 10) >>

\* C9: filtering ["A3","A12","B1","A1Z"] by the scope "A1-10" returns exactly
\* ["A3","A1Z"].
C9_EndToEnd ==
    (Done("filter") /\ scope = TextScope(T_A1_10)
       /\ heap[names] = << << "A", "3" >>, << "A", "1", "2" >>, << "B", "1" >>, << "A", "1", "Z" >> >>)
        => heap[filtered] = << << "A", "3" >>, << "A", "1", "Z" >> >>

\* The scope argument is absent or has no rules.
WithoutRules(sc) ==
    \/ sc.kind \in { "absent", "norules" }
    \/ sc.kind = "object" /\ sc.rules = << >>
    \/ sc.kind = "string" /\ compileShelfScope(sc.text, << >>).rules = << >>

\* C10: with a scope that is absent or has no rules, matchShelfNameScope returns
\* true for every identifier, and filterShelfNamesByScope returns a new list
\* with the elements of the input in the same order.
C10_DefaultAllow ==
    WithoutRules(scope) =>
        /\ Done("match") => matched = TRUE
        /\ Done("filter") => filtered # names /\ heap[filtered] = heap[names]

\* A filter by a compiled scope with an empty rules list over a list that holds
\* a malformed identifier.
C10_Witness ==
    /\ Done("filter")
    /\ scope.kind = "object" /\ scope.rules = << >>
    /\ Len(heap[names]) >= 2
    /\ \E i \in 1..Len(heap[names]) : parseShelfName(heap[names][i]).number = Null

\* s is one or more letters, one or more digits, then letters or nothing, with
\* k letters and d digits.
IsShelfShape(s, k, d) ==
    /\ k >= 1 /\ d >= 1 /\ k + d <= Len(s)
    /\ \A i \in 1..Len(s) :
          IF i <= k \/ i > k + d THEN s[i] \in Letters ELSE s[i] \in Digits

WellFormed(s) == \E k, d \in 1..Len(s) : IsShelfShape(s, k, d)

WithRules(sc) == sc.kind = "object" /\ sc.rules # << >>

\* C11: an identifier that is not letters, digits and optional letters never
\* matches a compiled scope with at least one rule.
C11_MalformedNeverMatches ==
    (Done("match") /\ WithRules(scope) /\ ~WellFormed(Norm(name))) => matched = FALSE

\* A match of a malformed identifier whose leading letters and digits are in the
\* range of a rule of the scope.
C11_Witness ==
    /\ Done("match") /\ WithRules(scope) /\ ~WellFormed(Norm(name))
    /\ \E k, d \in 1..Len(name) :
          /\ k + d <= Len(name)
          /\ IsShelfShape(Take(name, k + d), k, d)
          /\ \E i \in 1..Len(scope.rules) :
                /\ scope.rules[i].prefix = Take(name, k)
                /\ scope.rules[i].lo <= DigitsValue(SubSeq(name, k + 1, k + d))
                /\ DigitsValue(SubSeq(name, k + 1, k + d)) <= scope.rules[i].hi

ErrorKinds == { "Invalid range: ", "Missing prefix for: ", "Unrecognized token: " }

CompiledScopeFields == { "raw", "rules", "errors", "implicitPrefixes" }

WhiteSpaceOnly(s) == \A i \in 1..Len(s) : IsSpace(s[i])

\* C13: an empty or white-space-only text compiles to no rules and no errors,
\* whatever the implicit prefixes.
C13_EmptyScope ==
    (Done("compile") /\ WhiteSpaceOnly(text)) =>
       (compiled.rules = << >> /\ compiled.errors = << >>)

\* A compilation of a text of white space only with implicit prefixes.
C13_Witness ==
    /\ Done("compile") /\ WhiteSpaceOnly(text) /\ Len(text) >= 2
    /\ implicitPrefixes # << >>
    /\ compiled.rules = << >>

SameArguments(c, d) == c.text = d.text /\ c.implicitPrefixes = d.implicitPrefixes

\* C14: two compileShelfScope calls with identical arguments return identical
\* results, whatever calls happen before or between them; each result depends
\* on the call's own arguments only.
C14_Deterministic ==
    /\ \A i, j \in 1..Len(calls) :
          SameArguments(calls[i], calls[j]) => calls[i].result = calls[j].result
    /\ \A i \in 1..Len(calls) :
          calls[i].result = compileShelfScope(calls[i].text, calls[i].implicitPrefixes)

\* The same bare token compiled before and after a call that set a prefix, with
\* a filter call in the session: both calls report the missing prefix.
C14_Witness ==
    /\ Len(calls) = 3 /\ filtered # 0
    /\ SameArguments(calls[1], calls[3])
    /\ calls[1].text = << BS, "d" >> /\ calls[1].implicitPrefixes = << >>
    /\ calls[2].text = << "A", BS, "d" >>
    /\ Len(calls[3].result.errors) = 1

\* Some rule has the upper-cased first k characters of s as prefix and a range
\* that contains the number written by the next d characters.
SomeRuleContains(rules, s, k, d) ==
    \E i \in 1..Len(rules) :
       /\ rules[i].prefix = ToUpperCase(Take(s, k))
       /\ rules[i].lo <= DigitsValue(SubSeq(s, k + 1, k + d))
       /\ DigitsValue(SubSeq(s, k + 1, k + d)) <= rules[i].hi

Member(rules, s) ==
    \E k, d \in 1..Len(s) : IsShelfShape(s, k, d) /\ SomeRuleContains(rules, s, k, d)

\* C15: for a scope with at least one rule and a well-formed identifier, the
\* match is true exactly if some rule has the identifier's upper-cased prefix
\* and a range containing its number; rule order, suffix and letter case do
\* not matter.
C15_Membership ==
    (Done("match") /\ WithRules(scope) /\ WellFormed(Norm(name))) =>
       (matched <=> Member(scope.rules, Norm(name)))

\* A lower-case identifier matched by the second rule of its prefix.
C15_Witness ==
    /\ Done("match") /\ WithRules(scope) /\ matched
    /\ name = << "a", "3" >>
    /\ scope.rules[1].prefix = << "A" >> /\ scope.rules[1].hi < 3

Matching(n) == matchShelfNameScope(n, scope)

\* C16: filterShelfNamesByScope returns exactly the elements of the list for
\* which matchShelfNameScope is true for the same scope, in input order and
\* with duplicates kept.
C16_FilterSemantics ==
    Done("filter") => heap[filtered] = SelectSeq(heap[names], Matching)

\* A filter that drops the middle element and keeps both copies of another.
C16_Witness ==
    /\ Done("filter") /\ WithRules(scope)
    /\ heap[names] = << << "A", "3" >>, << "B", "1" >>, << "A", "3" >> >>
    /\ heap[filtered] = << << "A", "3" >>, << "A", "3" >> >>

\* The scope object compileShelfScope(t, {}) returns.
CompiledText(t) == ObjectScope(compileShelfScope(t, << >>).rules)

T_Bad == << "?", "?" >>

\* C18: an erroneous token does not abort the compilation: "A1-5, ??" and
\* "??, A1-5" compile to the rule {A,1,5} of the valid token, with one error
\* for the erroneous one.
C18_BestEffort ==
    /\ Compiled(JoinTokens(<< T_A1_5, T_Bad >>))
          => /\ compiled.rules = << RuleOf(PA, 1, 5) >>
             /\ compiled.errors = << Error("Unrecognized token: ", T_Bad) >>
    /\ Compiled(JoinTokens(<< T_Bad, T_A1_5 >>))
          => /\ compiled.rules = << RuleOf(PA, 1, 5) >>
             /\ compiled.errors = << Error("Unrecognized token: ", T_Bad) >>

NotSpace(c) == ~IsSpace(c)

\* The text with the white space inside and around its tokens taken out.
Unspaced(s) == SelectSeq(s, NotSpace)

SameRulesAndErrorCount(c, d) == c.rules = d.rules /\ Len(c.errors) = Len(d.errors)

\* C19: white space inside a token is stripped before the token is
\* classified: a text compiles to the same rules and the same number of errors
\* as the text with the white space of its tokens removed.
C19_InnerWhiteSpace ==
    Done("compile") =>
       SameRulesAndErrorCount(compiled, compileShelfScope(Unspaced(text), implicitPrefixes))

T_C_10_15 == << "C", ":", "1", "0", "-", "1", "5" >>
T_C10_15 == << "C", "1", "0", "-", "1", "5" >>
PC == << "C" >>

\* C20: the colon form "C:10-15" compiles to {C,10,15}, the rules of the
\* concatenated form "C10-15", and sets the last prefix to C for a following
\* bare token.
C20_ColonForm ==
    /\ Compiled(T_C_10_15)
          => /\ compiled.rules = << RuleOf(PC, 10, 15) >>
             /\ compiled.rules = compileShelfScope(T_C10_15, implicitPrefixes).rules
    /\ Compiled(JoinTokens(<< T_C_10_15, T_6_10 >>))
          => /\ compiled.rules = << RuleOf(PC, 6, 15) >>
             /\ compiled.errors = << >>

FormErrors == { "Invalid range: ", "Unrecognized token: " }

\* C21: a token of one of the three grammar forms ("A1-5") records neither
\* "Invalid range" nor "Unrecognized token"; a token of none of the forms
\* ("??") records exactly "Unrecognized token: ??" and emits no rule.
C21_ErrorClassification ==
    /\ Compiled(T_A1_5) =>
          \A i \in 1..Len(compiled.errors) : compiled.errors[i].msg \notin FormErrors
    /\ Compiled(T_Bad) =>
          /\ compiled.errors = << Error("Unrecognized token: ", T_Bad) >>
          /\ compiled.rules = << >>

ErrorTokens(errors) == [ i \in 1..Len(errors) |-> errors[i].token ]

\* C22: no token is dropped silently: the errors are, in token order, one for
\* each token that contributed no rule; a scope without rules has one error for
\* every token of the text.
C22_NoSilentDrop ==
    Done("compile") =>
       IF compiled.rules = << >>
       THEN ErrorTokens(compiled.errors) = Parts(Norm(text))
       ELSE Len(compiled.errors) < Len(Parts(Norm(text)))

Perms(n) == { f \in [1..n -> 1..n] : \A i, j \in 1..n : f[i] = f[j] => i = j }

Permuted(s, f) == [ i \in 1..Len(s) |-> s[f[i]] ]

\* Every token starts with a letter: it carries its own prefix.
AllPrefixed(tokens) == \A i \in 1..Len(tokens) : tokens[i][1] \in Letters

SameRulesPermuted(tokens) ==
    \A f \in Perms(Len(tokens)) :
       Range(compileShelfScope(JoinTokens(Permuted(tokens, f)), implicitPrefixes).rules)
          = Range(compiled.rules)

\* C23: merging any permutation of a rule list yields the same set of rules,
\* and permuting the tokens of a text whose tokens all carry a prefix does not
\* change the compiled set of rules.
C23_OrderIndependent ==
    /\ Done("merge") =>
          \A f \in Perms(Len(rulesIn)) :
             Range(mergeScopeRules(Permuted(rulesIn, f))) = Range(merged)
    /\ (Done("compile") /\ AllPrefixed(Parts(Norm(text)))) =>
          SameRulesPermuted(Parts(Norm(text)))

\* A merge of two separate ranges of one prefix given in descending order.
C23_Witness ==
    /\ Done("merge") /\ Len(rulesIn) = 2 /\ Len(merged) = 2
    /\ rulesIn[1].prefix = rulesIn[2].prefix
    /\ rulesIn[1].lo > rulesIn[2].hi + 1
    /\ merged[1].lo < merged[2].lo

Arguments == << rulesIn, text, implicitPrefixes, name, scope, names >>

\* Every object that existed before the call has the content it had.
ObjectsKept == SubSeq(heap', 1, Len(heap)) = heap

T_A_x == << "A", ":", "x" >>

\* C25: a prefixed token rejected with "Invalid range" still sets the last
\* prefix: "A:x, 10-15" reports the invalid range of "A:x" and resolves
\* "10-15" under A, with or without implicit prefixes.
C25_RejectedPrefixCarries ==
    Compiled(JoinTokens(<< T_A_x, T_10_15 >>))
        => /\ compiled.errors = << Error("Invalid range: ", T_A_x) >>
           /\ compiled.rules = << RuleOf(PA, 10, 15) >>

TaskSettled(i) == tasks[i].status \in Outcomes

\* C26: the resku queue is strictly sequential: a task that has started has
\* every earlier task settled, so at most one body is in progress and tasks
\* start in enqueue order; a queued task whose earlier tasks' promises have
\* settled, fulfilled or rejected, is not held back; a settled promise carries
\* the outcome of its own task.
C26_Sequential ==
    /\ \A i \in 1..Len(tasks) :
          tasks[i].status # "queued" => \A j \in 1..(i - 1) : TaskSettled(j)
    /\ Cardinality({ i \in 1..Len(tasks) : tasks[i].status = "running" }) <= 1
    /\ \A k \in 1..Len(started) : started[k] = k
    /\ \A i \in 1..Len(tasks) :
          (tasks[i].status = "queued" /\ \A j \in 1..(i - 1) : promises[j] # Pending)
             => Runs(tasks[i].after)
    /\ \A i \in 1..Len(promises) :
          promises[i] # Pending => promises[i] = [state |-> tasks[i].status, by |-> i]

\* Three tasks: the first rejected, the second fulfilled, the third in
\* progress.
C26_Witness ==
    /\ Len(tasks) = 3
    /\ promises[1].state = "rejected" /\ promises[2].state = "fulfilled"
    /\ tasks[2].kind = "updateShelf"
    /\ tasks[3].status = "running"

InFlight == Cardinality({ k \in 1..Len(lanes) : lanes[k].awaiting })

TimesCalled(i) == Cardinality({ k \in 1..Len(workerCalls) : workerCalls[k] = i })

\* C27: runWithConcurrency invokes the worker at most once for an index and,
\* when it resolves, exactly once for each index 0..n-1; never more than
\* max(1, min(concurrency, n)) calls are in flight; it resolves with the
\* worker's value of items[i] at results[i]; onProgress is called with
\* completed = 1, 2, ..., n.
C27_ConcurrencyPool ==
    /\ InFlight <= Max(1, Min(ConcurrencyOf(poolArgs), poolArgs.total))
    /\ \A i \in 0..(poolArgs.total - 1) : TimesCalled(i) <= 1
    /\ \A k \in 1..Len(progress) : progress[k] = k
    /\ poolState = "resolved" =>
          /\ \A i \in 0..(poolArgs.total - 1) :
                TimesCalled(i) = 1 /\ results[i] = WorkerValue(i)
          /\ Len(workerCalls) = poolArgs.total
          /\ poolArgs.onProgress => Len(progress) = poolArgs.total

\* Three items on two lanes: the second call has fulfilled before the first,
\* and its lane is working on the third item.
C27_Witness ==
    /\ poolState = "running" /\ poolArgs.total = 3 /\ poolArgs.concurrency = 2
    /\ results[0] = Null /\ results[1] = WorkerValue(1)
    /\ InFlight = 2 /\ workerCalls = << 0, 1, 2 >>

RetrySettled == retryState \in { "resolved", "rejected" }

\* The number of sleeps started: one after each attempt but the current one.
SleepsDue == IF retryState = "sleeping" THEN Len(fnLog) ELSE Len(fnLog) - 1

RetrySafe ==
    /\ Len(fnLog) <= RetriesOf(retryArgs) + 1
    /\ \A k \in 1..Len(fnLog) :
          /\ fnLog[k].attempt = k - 1
          /\ k < Len(fnLog) => fnLog[k].outcome = "rejected"
    /\ retryState = "resolved" =>
          /\ fnLog[Len(fnLog)].outcome = "fulfilled"
          /\ retryResult = ValueOf(Len(fnLog) - 1)
    /\ retryState = "rejected" =>
          /\ Len(fnLog) = RetriesOf(retryArgs) + 1
          /\ fnLog[Len(fnLog)].outcome = "rejected"
          /\ retryResult = ErrorOf(RetriesOf(retryArgs))
    /\ retryState # "idle" =>
          /\ Len(sleeps) = SleepsDue
          /\ \A k \in 1..Len(sleeps) :
                sleeps[k] = IF k = 1 THEN DelayOf(retryArgs)
                            ELSE sleeps[k - 1] * FactorOf(retryArgs)

\* C28: retry calls fn at most retries+1 times with attempts 0, 1, 2, ...; it
\* resolves with the value of the first attempt that fulfils and rejects with
\* the error of the last attempt if all reject; it sleeps once between two
\* attempts, each delay the one before times factor; and it always settles.
C28_Retry == []RetrySafe /\ <>RetrySettled

\* All four attempts of retries = 3 rejected, with three sleeps in between.
C28_Witness ==
    /\ retryState = "rejected" /\ retryArgs.retries = 3 /\ retryArgs.factor = 3
    /\ Len(fnLog) = 4 /\ Len(sleeps) = 3
    /\ retryResult = ErrorOf(3)

\* Each element is passed to the callback at most once, every seen element
\* is queued or was passed to it, a throwing callback included, and at most
\* one timer is pending.
DeliveredOnce ==
    /\ \A i, j \in 1..Len(obs.delivered) :
          obs.delivered[i].el = obs.delivered[j].el => i = j
    /\ { obs.delivered[i].el : i \in 1..Len(obs.delivered) }
         \cup { obs.queued[i] : i \in 1..Len(obs.queued) } = obs.seen
    /\ obs.timers <= 1

\* C29: onAdded calls the callback once per distinct enqueued element, in
\* enqueue order, with at most one flush timer pending, a throwing callback
\* not stopping the rest of the batch, and never again after the returned
\* disconnect function has been called.
C29_OnAdded ==
    /\ []DeliveredOnce
    /\ [][obsState = "disconnected" => obs'.delivered = obs.delivered]_vars

\* C30: when the promise returned by loadInIframe has settled, the iframe has
\* been removed from the document and the timeout timer has been cancelled or
\* has fired.
C30_CleanupOnSettle ==
    frame.promise \in { "resolved", "rejected" } =>
        ~frame.attached /\ frame.timeout \in { "cancelled", "fired" }

=============================================================================
